---- MODULE Spec2Model ----
(***************************************************************************)
(* A model of the turn-orchestration loop and the tool dispatcher of       *)
(* GeminiAssistant (src/src/gemini_assistant/assistant.py) and of the tool *)
(* registry (src/src/gemini_assistant/tools.py).                           *)
(*                                                                         *)
(* Python values.  A str is a sequence of tokens; a token is either one    *)
(* whitespace character (" " or "\n") or a non-empty text that neither     *)
(* starts nor ends with whitespace.  "" is << >>, and a str is truthy iff  *)
(* it has a token.  Values the backend puts into a tool call are tagged    *)
(* with their Python type, because the handlers behave differently on a    *)
(* str, on None and on a number.  A dict is a TLA+ function from its keys. *)
(***************************************************************************)
EXTENDS Integers, Sequences, FiniteSets, TLC

\* ------------------------------------------------------------------ bounds

\* Backend calls (generate_content) made in one behaviour, all chats together.
MaxBackendCalls == 3

\* The round cap claim C3 speaks of: the code defines none, so this is the
\* candidate cap the claim is tested with.
RoundCap == 2

\* -------------------------------------------------------- Python values

Str(tokens) == [t |-> "str", s |-> tokens]

None == [t |-> "none"]

Num(n) == [t |-> "num", n |-> n]

\* A dict, and the same items as a list of (key, value) pairs, which
\* dict(...) accepts.
Dict(d) == [t |-> "dict", d |-> d]

Pairs(d) == [t |-> "pairs", d |-> d]

EmptyDict == [k \in {} |-> None]

IsStr(v) == v.t = "str"

\* Python truthiness of a tagged value.
Truthy(v) ==
    CASE v.t = "str" -> v.s # << >>
      [] v.t = "none" -> FALSE
      [] v.t = "num" -> v.n # 0
      [] OTHER -> DOMAIN v.d # {}

\* dict.get(key, default)
Get(d, key, default) == IF key \in DOMAIN d THEN d[key] ELSE default

IsSpace(tok) == tok \in {" ", "\n"}

RECURSIVE LStrip(_)
LStrip(s) == IF s # << >> /\ IsSpace(Head(s)) THEN LStrip(Tail(s)) ELSE s

RECURSIVE RStrip(_)
RStrip(s) ==
    IF s # << >> /\ IsSpace(s[Len(s)]) THEN RStrip(SubSeq(s, 1, Len(s) - 1)) ELSE s

\* str.strip()
Strip(s) == RStrip(LStrip(s))

\* ------------------------------------------------------------- registry

TOOL_NAMES ==
    {"get_weather_forecast", "list_calendar_agenda", "create_reminder",
     "search_public_info", "draft_email_outline"}

\* The names build_tool_spec declares to the backend, in order.
build_tool_spec ==
    <<"get_weather_forecast", "list_calendar_agenda", "create_reminder",
      "search_public_info", "draft_email_outline">>

\* A handler table that lacks the entry of the newest tool.
HandlersWithoutEmail ==
    {"get_weather_forecast", "list_calendar_agenda", "create_reminder",
     "search_public_info"}

\* The keys of the handler table of _dispatch_tool_call.
handlers ==
    {"get_weather_forecast", "list_calendar_agenda", "create_reminder",
     "search_public_info", "draft_email_outline"}

\* ------------------------------------------------------------ calendar

\* datetime.utcnow().date() at construction, and the day after.
Today == "2024-03-01"

Tomorrow == "2024-03-02"

calendar_seed ==
    [d \in {Today, Tomorrow} |->
        IF d = Today
        THEN << [title |-> "Stand-up with product team", time |-> "09:30",
                 location |-> "Zoom",
                 notes |-> "Share progress on the onboarding flow prototype."],
                [title |-> "Gym session", time |-> "17:45",
                 location |-> "Local fitness center",
                 notes |-> "Strength day - focus on posterior chain."] >>
        ELSE << [title |-> "Client status update", time |-> "13:00",
                 location |-> "Teams",
                 notes |-> "Review Q4 roadmap and confirm deliverables."] >>]

\* dateutil's parser on the date strings of this model: the date and the
\* time of day it reads, or ok = FALSE where it raises ValueError.
DateParse(s) ==
    CASE s = <<"2024-03-01">> ->
            [ok |-> TRUE, date |-> "2024-03-01", time |-> "00:00:00"]
      [] s = <<"2024-03-01T09:00:00">> ->
            [ok |-> TRUE, date |-> "2024-03-01", time |-> "09:00:00"]
      [] s = <<"March", " ", "1", " ", "2024", " ", "9am">> ->
            [ok |-> TRUE, date |-> "2024-03-01", time |-> "09:00:00"]
      [] s = <<"2024-03-02">> ->
            [ok |-> TRUE, date |-> "2024-03-02", time |-> "00:00:00"]
      [] OTHER -> [ok |-> FALSE]

\* datetime.isoformat()
IsoDateTime(p) == p.date \o "T" \o p.time

\* ------------------------------------------------------------- handlers
\* A handler yields what the call does: raised = TRUE when an exception
\* leaves it (nothing is stored then), else the dict it returns and the
\* reminders list after it.

Raised(exc) == [raised |-> TRUE, exc |-> exc]

Returned(result, rem) == [raised |-> FALSE, result |-> result, reminders |-> rem]

\* str.lower() on the tokens of this model that hold capitals.
LowerTok(tok) ==
    CASE tok = "Celsius" -> "celsius"
      [] tok = "CELSIUS" -> "celsius"
      [] tok = "Launch" -> "launch"
      [] tok = "Quick" -> "quick"
      [] OTHER -> tok

Lower(s) == [i \in 1..Len(s) |-> LowerTok(s[i])]

\* The payload wttr.in answers with when the request succeeds.
WeatherPayload ==
    [areaName |-> <<"Paris">>, weatherDesc |-> <<"Sunny">>, temp_C |-> 20,
     temp_F |-> 68, FeelsLikeC |-> 19, FeelsLikeF |-> 66, humidity |-> <<"40">>]

\* providerOk: the request to wttr.in succeeded and its payload was read.
\* Every exception of the request is caught.  The degree sign of the unit
\* symbol is written "deg".
_tool_get_weather_forecast(arguments, rem, providerOk) ==
    LET locRaw == Get(arguments, "location", Str(<< >>))
        unitRaw == Get(arguments, "unit", None)
    IN  IF ~IsStr(locRaw) THEN Raised("AttributeError")
        ELSE IF Truthy(unitRaw) /\ ~IsStr(unitRaw) THEN Raised("AttributeError")
        ELSE
          LET location == Strip(locRaw.s)
              unit0 == IF Truthy(unitRaw) THEN Lower(unitRaw.s) ELSE <<"fahrenheit">>
              unit == IF unit0 \in {<<"fahrenheit">>, <<"celsius">>}
                      THEN unit0 ELSE <<"fahrenheit">>
              isF == unit = <<"fahrenheit">>
              sym == IF isF THEN "F" ELSE "C"
              pl == WeatherPayload
          IN  IF location = << >>
              THEN Returned([error |-> <<"Missing location.">>], rem)
              ELSE IF providerOk
              THEN Returned(
                     [location |-> pl.areaName,
                      summary |-> pl.weatherDesc,
                      temperature |->
                          <<ToString(IF isF THEN pl.temp_F ELSE pl.temp_C) \o "deg" \o sym>>,
                      feels_like |->
                          <<ToString(IF isF THEN pl.FeelsLikeF ELSE pl.FeelsLikeC)
                              \o "deg" \o sym>>,
                      humidity |-> <<pl.humidity[1] \o "%">>,
                      source |-> <<"wttr.in">>], rem)
              ELSE Returned(
                     [location |-> location,
                      error |-> <<"Weather provider unavailable: ...">>], rem)

\* An agenda that also lists the reminders stored so far.
AgendaWithReminders(arguments, rem) ==
    LET date_str == Get(arguments, "date", None)
    IN  IF ~Truthy(date_str)
        THEN Returned([error |-> <<"Provide a date in YYYY-MM-DD format.">>], rem)
        ELSE IF ~IsStr(date_str) \/ ~DateParse(date_str.s).ok
        THEN Returned([error |-> <<"Invalid date: ...">>], rem)
        ELSE
          LET iso == DateParse(date_str.s).date
          IN  Returned([date |-> <<iso>>,
                        events |-> Get(calendar_seed, iso, << >>) \o rem], rem)

_tool_list_calendar_agenda(arguments, rem) ==
    LET date_str == Get(arguments, "date", None)
    IN  IF ~Truthy(date_str)
        THEN Returned([error |-> <<"Provide a date in YYYY-MM-DD format.">>], rem)
        ELSE IF ~IsStr(date_str) \/ ~DateParse(date_str.s).ok
        THEN Returned([error |-> <<"Invalid date: ...">>], rem)
        ELSE
          LET iso == DateParse(date_str.s).date
          IN  Returned([date |-> <<iso>>,
                        events |-> Get(calendar_seed, iso, << >>)], rem)

\* _tool_create_reminder reporting the count it found before its append.
CreateReminderTotalBefore(arguments, rem) ==
    LET sumRaw == Get(arguments, "summary", Str(<< >>))
        due_time_raw == Get(arguments, "due_time", None)
    IN  IF ~IsStr(sumRaw) THEN Raised("AttributeError")
        ELSE
          LET summary == Strip(sumRaw.s)
          IN  IF summary = << >>
              THEN Returned([error |-> <<"Reminder summary cannot be empty.">>], rem)
              ELSE IF ~Truthy(due_time_raw)
              THEN Returned([error |-> <<"Provide a due_time in ISO-8601 format.">>], rem)
              ELSE IF ~IsStr(due_time_raw) \/ ~DateParse(due_time_raw.s).ok
              THEN Returned([error |-> <<"Invalid due_time: ...">>], rem)
              ELSE
                LET reminder == [summary |-> summary,
                                 due_time |-> <<IsoDateTime(DateParse(due_time_raw.s))>>]
                    after == Append(rem, reminder)
                IN  Returned([status |-> <<"stored">>, reminder |-> reminder,
                              total |-> Len(rem)], after)

\* _tool_create_reminder storing the reminder before it has parsed the
\* due time.
CreateReminderStoresFirst(arguments, rem) ==
    LET sumRaw == Get(arguments, "summary", Str(<< >>))
        due_time_raw == Get(arguments, "due_time", None)
    IN  IF ~IsStr(sumRaw) THEN Raised("AttributeError")
        ELSE
          LET summary == Strip(sumRaw.s)
          IN  IF summary = << >>
              THEN Returned([error |-> <<"Reminder summary cannot be empty.">>], rem)
              ELSE IF ~Truthy(due_time_raw)
              THEN Returned([error |-> <<"Provide a due_time in ISO-8601 format.">>], rem)
              ELSE IF ~IsStr(due_time_raw) \/ ~DateParse(due_time_raw.s).ok
              THEN Returned([error |-> <<"Invalid due_time: ...">>],
                            Append(rem, [summary |-> summary, due_time |-> << >>]))
              ELSE
                LET reminder == [summary |-> summary,
                                 due_time |-> <<IsoDateTime(DateParse(due_time_raw.s))>>]
                    after == Append(rem, reminder)
                IN  Returned([status |-> <<"stored">>, reminder |-> reminder,
                              total |-> Len(after)], after)

_tool_create_reminder(arguments, rem) ==
    LET sumRaw == Get(arguments, "summary", Str(<< >>))
        due_time_raw == Get(arguments, "due_time", None)
    IN  IF ~IsStr(sumRaw) THEN Raised("AttributeError")
        ELSE
          LET summary == Strip(sumRaw.s)
          IN  IF summary = << >>
              THEN Returned([error |-> <<"Reminder summary cannot be empty.">>], rem)
              ELSE IF ~Truthy(due_time_raw)
              THEN Returned([error |-> <<"Provide a due_time in ISO-8601 format.">>], rem)
              ELSE IF ~IsStr(due_time_raw) \/ ~DateParse(due_time_raw.s).ok
              THEN Returned([error |-> <<"Invalid due_time: ...">>], rem)
              ELSE
                LET reminder == [summary |-> summary,
                                 due_time |-> <<IsoDateTime(DateParse(due_time_raw.s))>>]
                    after == Append(rem, reminder)
                IN  Returned([status |-> <<"stored">>, reminder |-> reminder,
                              total |-> Len(after)], after)

\* The page summary Wikipedia answers with when the request succeeds.
WikiPayload ==
    [title |-> <<"Paris">>, extract |-> <<"Capital", " ", "of", " ", "France.">>,
     page |-> <<"https://en.wikipedia.org/wiki/Paris">>]

\* lookupOk: the request to Wikipedia succeeded.  Every exception of the
\* request is caught.
_tool_search_public_info(arguments, rem, lookupOk) ==
    LET topicRaw == Get(arguments, "topic", Str(<< >>))
    IN  IF ~IsStr(topicRaw) THEN Raised("AttributeError")
        ELSE
          LET topic == Strip(topicRaw.s)
          IN  IF topic = << >>
              THEN Returned([error |-> <<"Topic cannot be empty.">>], rem)
              ELSE IF lookupOk
              THEN Returned([title |-> WikiPayload.title,
                             summary |-> WikiPayload.extract,
                             url |-> WikiPayload.page,
                             source |-> <<"wikipedia">>], rem)
              ELSE Returned([topic |-> topic,
                             error |-> <<"Wikipedia lookup failed: ...">>], rem)

\* str.splitlines(): the lines between the "\n" tokens.
RECURSIVE SplitLines(_, _)
SplitLines(s, cur) ==
    IF s = << >> THEN (IF cur = << >> THEN << >> ELSE <<cur>>)
    ELSE IF Head(s) = "\n" THEN <<cur>> \o SplitLines(Tail(s), << >>)
    ELSE SplitLines(Tail(s), Append(cur, Head(s)))

\* The characters line.strip removes: "-", the bullet U+2022 (written
\* "u2022" here) and the blank.
BulletChars == {"-", "u2022", " "}

\* line.strip(BulletChars): the bullet markers and blanks at both ends go.
RECURSIVE StripBullet(_)
StripBullet(s) ==
    IF s # << >> /\ Head(s) \in BulletChars THEN StripBullet(Tail(s))
    ELSE IF s # << >> /\ s[Len(s)] \in BulletChars
    THEN StripBullet(SubSeq(s, 1, Len(s) - 1))
    ELSE s

\* "\n".join(paragraphs)
RECURSIVE JoinLines(_)
JoinLines(ps) ==
    IF ps = << >> THEN << >>
    ELSE IF Len(ps) = 1 THEN ps[1]
    ELSE ps[1] \o <<"\n">> \o JoinLines(Tail(ps))

\* The lines of ls that are not blank, each without its bullet marker.
RECURSIVE Bullets(_)
Bullets(ls) ==
    IF ls = << >> THEN << >>
    ELSE IF Strip(Head(ls)) = << >> THEN Bullets(Tail(ls))
    ELSE <<StripBullet(Head(ls))>> \o Bullets(Tail(ls))

_tool_draft_email_outline(arguments, rem) ==
    LET recRaw == Get(arguments, "recipient", Str(<<"there">>))
        subRaw == Get(arguments, "subject", Str(<<"Quick", " ", "update">>))
        outRaw == Get(arguments, "outline", Str(<< >>))
    IN  IF ~IsStr(recRaw) \/ ~IsStr(subRaw) \/ ~IsStr(outRaw)
        THEN Raised("AttributeError")
        ELSE
          LET recipient == IF Strip(recRaw.s) # << >> THEN Strip(recRaw.s)
                           ELSE <<"there">>
              subject == IF Strip(subRaw.s) # << >> THEN Strip(subRaw.s)
                         ELSE <<"Quick", " ", "update">>
              bullets == Bullets(SplitLines(Strip(outRaw.s), << >>))
              head == << <<"Hi", " ">> \o recipient \o <<",">>,
                         <<"I hope you're doing well. I'm reaching out about", " ">>
                             \o Lower(subject) \o <<".">> >>
              points == IF bullets = << >> THEN << >>
                        ELSE << <<"Here are the key points:">> >>
                             \o [i \in 1..Len(bullets) |-> <<"-", " ">> \o bullets[i]]
              tail == << <<"Let me know if you have any questions or need more detail.">>,
                         <<"Best,", "\n", "Your Assistant">> >>
          IN  Returned([subject |-> subject,
                        body |-> JoinLines(head \o points \o tail)], rem)

\* ----------------------------------------------------------- dispatcher

\* dict(arguments) of a value that is no dict: the dict, or the exception.
ToDict(a) ==
    CASE a.t = "pairs" -> [raised |-> FALSE, d |-> a.d]
      [] a.t = "str" -> IF a.s = << >> THEN [raised |-> FALSE, d |-> EmptyDict]
                        ELSE [raised |-> TRUE, exc |-> "ValueError"]
      [] OTHER -> [raised |-> TRUE, exc |-> "TypeError"]

\* handlers[name](arguments); ext is the outcome of the handler's outbound
\* request, if it makes one.
CallHandler(name, arguments, rem, ext) ==
    CASE name = "get_weather_forecast" -> _tool_get_weather_forecast(arguments, rem, ext)
      [] name = "list_calendar_agenda" -> _tool_list_calendar_agenda(arguments, rem)
      [] name = "create_reminder" -> _tool_create_reminder(arguments, rem)
      [] name = "search_public_info" -> _tool_search_public_info(arguments, rem, ext)
      [] name = "draft_email_outline" -> _tool_draft_email_outline(arguments, rem)

\* A slip that leaves out the registry check: the handler table is asked
\* for whatever name the backend sent.
DispatchUncheckedName(function_call, rem, ext) ==
    LET name == function_call.name
        args0 == Get(function_call, "args", Dict(EmptyDict))
        args == IF args0.t = "dict" THEN [raised |-> FALSE, d |-> args0.d]
                ELSE ToDict(args0)
    IN  IF name \notin handlers
        THEN [raised |-> TRUE, exc |-> "KeyError", invoked |-> "none"]
        ELSE IF args.raised
        THEN [raised |-> TRUE, exc |-> args.exc, invoked |-> "none"]
        ELSE [invoked |-> name] @@ CallHandler(name, args.d, rem, ext)

\* The outcome of _dispatch_tool_call, and in `invoked` the handler it
\* called ("none" when it called none).
_dispatch_tool_call(function_call, rem, ext) ==
    LET name == function_call.name
        args0 == Get(function_call, "args", Dict(EmptyDict))
        args == IF args0.t = "dict" THEN [raised |-> FALSE, d |-> args0.d]
                ELSE ToDict(args0)
    IN  IF name \notin TOOL_NAMES
        THEN [raised |-> FALSE,
              result |-> [error |-> <<"Tool '" \o name \o "' is not available.">>],
              reminders |-> rem, invoked |-> "none"]
        ELSE IF name \notin handlers
        THEN [raised |-> TRUE, exc |-> "KeyError", invoked |-> "none"]
        ELSE IF args.raised
        THEN [raised |-> TRUE, exc |-> args.exc, invoked |-> "none"]
        ELSE [invoked |-> name] @@ CallHandler(name, args.d, rem, ext)

\* ------------------------------------------------------------- messages

NoImage == [t |-> "none"]

Bytes(b) == [t |-> "bytes", b |-> b]

B64Chars ==
    <<"A", "B", "C", "D", "E", "F", "G", "H", "I", "J", "K", "L", "M", "N", "O", "P",
      "Q", "R", "S", "T", "U", "V", "W", "X", "Y", "Z", "a", "b", "c", "d", "e", "f",
      "g", "h", "i", "j", "k", "l", "m", "n", "o", "p", "q", "r", "s", "t", "u", "v",
      "w", "x", "y", "z", "0", "1", "2", "3", "4", "5", "6", "7", "8", "9", "+", "/">>

\* base64.b64encode(b).decode("utf-8"), as one text
RECURSIVE B64(_)
B64(b) ==
    IF b = << >> THEN ""
    ELSE
      LET n == Len(b)
          v == b[1] * 65536 + (IF n >= 2 THEN b[2] * 256 ELSE 0)
                            + (IF n >= 3 THEN b[3] ELSE 0)
      IN  B64Chars[(v \div 262144) + 1]
          \o B64Chars[((v \div 4096) % 64) + 1]
          \o (IF n >= 2 THEN B64Chars[((v \div 64) % 64) + 1] ELSE "=")
          \o (IF n >= 3 THEN B64Chars[(v % 64) + 1] ELSE "=")
          \o B64(IF n > 3 THEN SubSeq(b, 4, n) ELSE << >>)

_build_user_message(prompt, image_bytes, mime_type) ==
    [role |-> "user",
     parts |->
        (IF prompt # << >> THEN <<[text |-> prompt]>> ELSE << >>)
        \o (IF image_bytes # NoImage
            THEN <<[inline_data |->
                      [mime_type |-> mime_type,
                       data |-> IF image_bytes.b = << >> THEN << >>
                                ELSE <<B64(image_bytes.b)>>]]>>
            ELSE << >>)]

IsCallPart(part) == "function_call" \in DOMAIN part /\ part.function_call # None

\* The function_call of every part that carries one, in the order of the parts.
RECURSIVE CallsOf(_)
CallsOf(parts) ==
    IF parts = << >> THEN << >>
    ELSE (IF IsCallPart(Head(parts)) THEN <<Head(parts).function_call>> ELSE << >>)
         \o CallsOf(Tail(parts))

\* A slip in the key the parts are searched for: no part is found.
ExtractWrongKey(message) ==
    CallsOf(SelectSeq(message.parts, LAMBDA part : "functionCall" \in DOMAIN part))

\* A slip that looks at the first part alone.
ExtractFirstPart(message) ==
    CallsOf(IF message.parts = << >> THEN << >> ELSE <<Head(message.parts)>>)

_extract_function_calls(message) == CallsOf(message.parts)

\* The stripped texts of the text parts that are not blank.
RECURSIVE TextsOf(_)
TextsOf(parts) ==
    IF parts = << >> THEN << >>
    ELSE (IF "text" \in DOMAIN Head(parts) /\ Strip(Head(parts).text) # << >>
          THEN <<Strip(Head(parts).text)>> ELSE << >>)
         \o TextsOf(Tail(parts))

_parts_to_text(parts) == JoinLines(TextsOf(parts))

\* The tool message the loop appends for function_call.
tool_message(function_call, tool_response) ==
    [role |-> "tool",
     parts |-> <<[function_response |->
                    [name |-> function_call.name, response |-> tool_response]]>>]

\* --------------------------------------------------------------- inputs

\* The threads that call into the one GeminiAssistant object.
Callers == {"A", "B"}

\* The caller that drives the session when it is driven by one caller.
Driver == "A"

\* The (prompt, image_bytes, mime_type) a caller passes to chat.
ChatInputs ==
    { <<<< >>, NoImage, "image/png">>,
      <<<<"hi">>, NoImage, "image/png">>,
      <<<< >>, Bytes(<< >>), "image/png">>,
      <<<<"hi">>, Bytes(<<137, 80>>), "image/jpeg">> }

FC_unknown == [name |-> "unknown_tool", args |-> Dict(EmptyDict)]

FC_remind ==
    [name |-> "create_reminder",
     args |-> Dict([summary |-> Str(<<" ", "Pay", " ", "rent">>),
                    due_time |-> Str(<<"March", " ", "1", " ", "2024", " ", "9am">>)])]

\* summary is null: the handler's .strip() raises AttributeError
FC_remind_null ==
    [name |-> "create_reminder",
     args |-> Dict([summary |-> None, due_time |-> Str(<<"2024-03-01T09:00:00">>)])]

FC_remind_blank ==
    [name |-> "create_reminder",
     args |-> Dict([summary |-> Str(<<" ">>), due_time |-> Str(<<"2024-03-02">>)])]

FC_agenda ==
    [name |-> "list_calendar_agenda", args |-> Dict([date |-> Str(<<"2024-03-01">>)])]

FC_agenda_bad ==
    [name |-> "list_calendar_agenda", args |-> Dict([date |-> Str(<<"not-a-date">>)])]

FC_weather ==
    [name |-> "get_weather_forecast",
     args |-> Dict([location |-> Str(<<"Paris", " ">>), unit |-> Str(<<"Celsius">>)])]

\* the argument payload is a str, which dict() refuses with ValueError
FC_weather_text == [name |-> "get_weather_forecast", args |-> Str(<<"Paris">>)]

\* the argument payload is a list of pairs, which dict() accepts
FC_search ==
    [name |-> "search_public_info", args |-> Pairs([topic |-> Str(<<"Paris">>)])]

FC_email ==
    [name |-> "draft_email_outline",
     args |-> Dict([recipient |-> Str(<<"Sam">>),
                    subject |-> Str(<<"Launch", " ", "plan">>),
                    outline |-> Str(<<"-", " ", "ship v1", "\n", "-", " ",
                                      "notify users">>)])]

\* calls that fail the handlers' validation
FC_weather_blank ==
    [name |-> "get_weather_forecast", args |-> Dict([location |-> Str(<<" ">>)])]

FC_search_blank ==
    [name |-> "search_public_info", args |-> Dict([topic |-> Str(<< >>)])]

FC_remind_nodue ==
    [name |-> "create_reminder", args |-> Dict([summary |-> Str(<<"Call", " ", "Sam">>)])]

FC_remind_baddue ==
    [name |-> "create_reminder",
     args |-> Dict([summary |-> Str(<<"Call", " ", "Sam">>),
                    due_time |-> Str(<<"not-a-date">>)])]

\* a second valid reminder, distinct from FC_remind
FC_remind_iso ==
    [name |-> "create_reminder",
     args |-> Dict([summary |-> Str(<<"Call", " ", "Sam">>),
                    due_time |-> Str(<<"2024-03-02">>)])]

ModelMessage(parts) == [role |-> "model", parts |-> parts]

\* The candidate contents generate_content answers with.
Responses ==
    { ModelMessage(<<[text |-> <<" ", "Done.">>]>>),
      ModelMessage(<<[function_call |-> FC_unknown], [function_call |-> FC_agenda_bad]>>),
      ModelMessage(<<[text |-> <<"Working">>], [function_call |-> FC_remind],
                     [function_call |-> FC_agenda]>>),
      ModelMessage(<<[function_call |-> FC_weather], [function_call |-> FC_remind_null]>>),
      ModelMessage(<<[function_call |-> FC_remind_blank], [function_call |-> FC_search]>>),
      ModelMessage(<<[function_call |-> FC_email], [function_call |-> FC_weather_text]>>),
      ModelMessage(<<[function_call |-> FC_weather_blank],
                     [function_call |-> FC_search_blank],
                     [function_call |-> FC_remind_nodue],
                     [function_call |-> FC_remind_baddue],
                     [function_call |-> FC_remind_iso]>>) }

\* ---------------------------------------------------------------- state

VARIABLES
    history,       \* self._history
    reminders,     \* self._state.reminders
    pc,            \* per caller: "idle", "await_model" (about to call
                   \* generate_content) or "dispatch" (in the for loop)
    calls,         \* per caller: function_calls of the current round
    idx,           \* per caller: the position of the for loop in calls
    outcome,       \* per caller: how its latest chat call stands: "none",
                   \* "running", "returned", or the error that left it
    reply,         \* per caller: the text its latest chat call returned
    rounds,        \* per caller: the responses with tool calls that its chat
                   \* call in progress has received
    backendCalls,  \* generate_content calls so far
    active,        \* the GeminiAssistant object that history and reminders
                   \* show: the one being driven
    parked,        \* the lists of the other GeminiAssistant object
    invoked        \* the handler the latest dispatch of the round in progress
                   \* called, "none" when it called none

vars ==
    <<history, reminders, pc, calls, idx, outcome, reply, rounds, backendCalls,
      invoked, active, parked>>

Init ==
    /\ history = << >>
    /\ reminders = << >>
    /\ pc = [c \in Callers |-> "idle"]
    /\ calls = [c \in Callers |-> << >>]
    /\ idx = [c \in Callers |-> 0]
    /\ outcome = [c \in Callers |-> "none"]
    /\ reply = [c \in Callers |-> << >>]
    /\ rounds = [c \in Callers |-> 0]
    /\ backendCalls = 0
    /\ invoked = "none"
    /\ active = "first"
    /\ parked = [history |-> << >>, reminders |-> << >>]

\* The behaviour has a backend call left: no call is started, and
\* generate_content is not called, once MaxBackendCalls are made.
CallsLeft == backendCalls < MaxBackendCalls

\* The call of caller c ends: its frame and its locals are gone.
Leave(c, how, text) ==
    /\ pc' = [pc EXCEPT ![c] = "idle"]
    /\ calls' = [calls EXCEPT ![c] = << >>]
    /\ idx' = [idx EXCEPT ![c] = 0]
    /\ outcome' = [outcome EXCEPT ![c] = how]
    /\ reply' = [reply EXCEPT ![c] = text]
    /\ rounds' = [rounds EXCEPT ![c] = 0]
    /\ invoked' = "none"

\* chat up to its call of _generate_until_complete, on the transcript h
ChatFrom(c, h, prompt, image_bytes, mime_type) ==
    /\ pc[c] = "idle"
    /\ IF prompt = << >> /\ image_bytes = NoImage
       THEN /\ history' = h
            /\ Leave(c, "ValueError", << >>)
       ELSE /\ history' = Append(h, _build_user_message(prompt, image_bytes, mime_type))
            /\ pc' = [pc EXCEPT ![c] = "await_model"]
            /\ outcome' = [outcome EXCEPT ![c] = "running"]
            /\ reply' = [reply EXCEPT ![c] = << >>]
            /\ UNCHANGED <<calls, idx, rounds, invoked>>
    /\ UNCHANGED <<reminders, backendCalls>>

\* chat behind a lock on the session object: a call starts only when no
\* other call is running.
ChatLocked(c, prompt, image_bytes, mime_type) ==
    /\ \A d \in Callers : pc[d] = "idle"
    /\ ChatFrom(c, history, prompt, image_bytes, mime_type)

chat(c, prompt, image_bytes, mime_type) ==
    ChatFrom(c, history, prompt, image_bytes, mime_type)

\* reset(), then chat
analyze_image(c, prompt, image_bytes, mime_type) ==
    ChatFrom(c, << >>, prompt, image_bytes, mime_type)

\* reset that starts the whole session over, stored reminders included.
ResetClearsState ==
    /\ history' = << >>
    /\ reminders' = << >>
    /\ UNCHANGED <<pc, calls, idx, outcome, reply, rounds, backendCalls, invoked>>

\* reset that drops only the newest message.
ResetDropsLast ==
    /\ history' = IF history = << >> THEN << >>
                  ELSE SubSeq(history, 1, Len(history) - 1)
    /\ UNCHANGED <<reminders, pc, calls, idx, outcome, reply, rounds, backendCalls, invoked>>

reset ==
    /\ history' = << >>
    /\ UNCHANGED <<reminders, pc, calls, idx, outcome, reply, rounds, backendCalls,
                   invoked>>

\* One generate_content call that answers with `content`, up to the return
\* or to the start of the for loop.
\* A loop that keeps only the newest message of a turn: the backend's
\* response replaces the last message of the transcript.
GenerateAnswerOverwrite(c, content) ==
    /\ pc[c] = "await_model" /\ CallsLeft
    /\ backendCalls' = backendCalls + 1
    /\ history' = IF history = << >> THEN <<content>>
                  ELSE [history EXCEPT ![Len(history)] = content]
    /\ LET function_calls == _extract_function_calls(content)
       IN  IF function_calls = << >>
           THEN Leave(c, "returned", _parts_to_text(content.parts))
           ELSE /\ pc' = [pc EXCEPT ![c] = "dispatch"]
                /\ calls' = [calls EXCEPT ![c] = function_calls]
                /\ idx' = [idx EXCEPT ![c] = 1]
                /\ rounds' = [rounds EXCEPT ![c] = @ + 1]
                /\ invoked' = "none"
                /\ UNCHANGED <<outcome, reply>>
    /\ UNCHANGED reminders

GenerateAnswer(c, content) ==
    /\ pc[c] = "await_model"
    /\ CallsLeft
    /\ backendCalls' = backendCalls + 1
    /\ history' = Append(history, content)
    /\ LET function_calls == _extract_function_calls(content)
       IN  IF function_calls = << >>
           THEN Leave(c, "returned", _parts_to_text(content.parts))
           ELSE /\ pc' = [pc EXCEPT ![c] = "dispatch"]
                /\ calls' = [calls EXCEPT ![c] = function_calls]
                /\ idx' = [idx EXCEPT ![c] = 1]
                /\ rounds' = [rounds EXCEPT ![c] = @ + 1]
                /\ invoked' = "none"
                /\ UNCHANGED <<outcome, reply>>
    /\ UNCHANGED reminders

\* A variant that undoes the turn when generate_content raises: the
\* transcript goes back to what it was before the user message of the call.
GenerateFailRollback(c) ==
    /\ pc[c] = "await_model"
    /\ CallsLeft
    /\ backendCalls' = backendCalls + 1
    /\ Leave(c, "BackendError", << >>)
    /\ history' = IF \E i \in DOMAIN history : history[i].role = "user"
                  THEN SubSeq(history, 1,
                              (CHOOSE i \in DOMAIN history :
                                  /\ history[i].role = "user"
                                  /\ \A j \in DOMAIN history :
                                        history[j].role = "user" => j <= i) - 1)
                  ELSE history
    /\ UNCHANGED reminders

\* A variant that catches the failure and calls generate_content again.
GenerateFailRetry(c) ==
    /\ pc[c] = "await_model"
    /\ CallsLeft
    /\ backendCalls' = backendCalls + 1
    /\ UNCHANGED <<history, reminders, pc, calls, idx, outcome, reply, rounds, invoked>>

\* One generate_content call that raises: nothing catches it, so it leaves
\* _generate_until_complete and chat.
GenerateFail(c) ==
    /\ pc[c] = "await_model"
    /\ CallsLeft
    /\ backendCalls' = backendCalls + 1
    /\ Leave(c, "BackendError", << >>)
    /\ UNCHANGED <<history, reminders>>

\* One pass of the for loop: dispatch the call and append its tool message.
\* An exception of the dispatch leaves the loop and chat.
DispatchNext(c, ext) ==
    /\ pc[c] = "dispatch"
    /\ LET function_call == calls[c][idx[c]]
           d == _dispatch_tool_call(function_call, reminders, ext)
       IN  IF d.raised
           THEN /\ Leave(c, "ToolError", << >>)
                /\ UNCHANGED <<history, reminders>>
           ELSE /\ reminders' = d.reminders
                /\ invoked' = d.invoked
                /\ history' = Append(history, tool_message(function_call, d.result))
                /\ IF idx[c] = Len(calls[c])
                   THEN /\ pc' = [pc EXCEPT ![c] = "await_model"]
                        /\ calls' = [calls EXCEPT ![c] = << >>]
                        /\ idx' = [idx EXCEPT ![c] = 0]
                   ELSE /\ idx' = [idx EXCEPT ![c] = @ + 1]
                        /\ UNCHANGED <<pc, calls>>
                /\ UNCHANGED <<outcome, reply, rounds>>
    /\ UNCHANGED backendCalls

\* No call is in progress: the session is driven by one caller at a time.
Quiescent == \A c \in Callers : pc[c] = "idle"

\* The session driven by one caller, one call at a time.
Next ==
    \/ \E in \in ChatInputs :
          /\ Quiescent /\ CallsLeft /\ chat(Driver, in[1], in[2], in[3])
          /\ UNCHANGED <<active, parked>>
    \/ \E in \in ChatInputs :
          /\ Quiescent /\ CallsLeft /\ analyze_image(Driver, in[1], in[2], in[3])
          /\ UNCHANGED <<active, parked>>
    \/ Quiescent /\ reset /\ UNCHANGED <<active, parked>>
    \/ \E content \in Responses :
          GenerateAnswer(Driver, content) /\ UNCHANGED <<active, parked>>
    \/ GenerateFail(Driver) /\ UNCHANGED <<active, parked>>
    \/ \E ext \in BOOLEAN : DispatchNext(Driver, ext) /\ UNCHANGED <<active, parked>>

Spec == Init /\ [][Next]_vars

\* Two threads calling chat on the same GeminiAssistant object with nothing
\* serialising them: each step is one thread's next append to _history
\* (its user message, a backend response, a tool message) or its backend
\* failure.  The code takes no lock anywhere.
ConcInputs == { <<<<"hi">>, NoImage, "image/png">> }

ConcResponses ==
    { ModelMessage(<<[text |-> <<" ", "Done.">>]>>),
      ModelMessage(<<[function_call |-> FC_unknown], [function_call |-> FC_agenda_bad]>>) }

NextConc ==
    \/ \E c \in Callers : \E in \in ConcInputs :
          /\ CallsLeft /\ chat(c, in[1], in[2], in[3])
          /\ UNCHANGED <<active, parked>>
    \/ \E c \in Callers : \E content \in ConcResponses :
          GenerateAnswer(c, content) /\ UNCHANGED <<active, parked>>
    \/ \E c \in Callers : GenerateFail(c) /\ UNCHANGED <<active, parked>>
    \/ \E c \in Callers : \E ext \in BOOLEAN :
          DispatchNext(c, ext) /\ UNCHANGED <<active, parked>>

SpecConc == Init /\ [][NextConc]_vars

\* Two GeminiAssistant objects in one process, used in turn.  An object of
\* the Python heap is named by the instance and the attribute it was built
\* for; two attributes hold the same object iff they hold the same name.
Sessions == {"first", "second"}

Other(s) == IF s = "first" THEN "second" ELSE "first"

\* An AssistantState whose reminders list is one list object shared by
\* every instance, as a mutable class-level default would be.
AssistantStateSharedList(s) ==
    [reminders |-> <<"AssistantState", "reminders">>,
     calendar_seed |-> <<s, "calendar_seed">>]

\* AssistantState() for instance s: default_factory=list builds a new list
\* per instance, and __post_init__ a new dict.
AssistantState(s) ==
    [reminders |-> <<s, "reminders">>,
     calendar_seed |-> <<s, "calendar_seed">>]

\* The attributes __init__ sets on instance s: a new AssistantState and a
\* new empty list.
GeminiAssistant(s) ==
    [_state |-> AssistantState(s), _history |-> <<s, "_history">>]

SameHistory ==
    GeminiAssistant("first")._history = GeminiAssistant("second")._history

SameReminders ==
    GeminiAssistant("first")._state.reminders
        = GeminiAssistant("second")._state.reminders

\* A step of the active object: the other object's lists change with it
\* exactly where they are the same list object.
Park ==
    /\ active' = active
    /\ parked' = [history |-> IF SameHistory THEN history' ELSE parked.history,
                  reminders |-> IF SameReminders THEN reminders'
                                ELSE parked.reminders]

\* The caller turns to the other object: its lists come into view.
Switch ==
    /\ Quiescent
    /\ active' = Other(active)
    /\ history' = parked.history
    /\ reminders' = parked.reminders
    /\ parked' = [history |-> history, reminders |-> reminders]
    /\ UNCHANGED <<pc, calls, idx, outcome, reply, rounds, backendCalls, invoked>>

TwoResponses ==
    { ModelMessage(<<[text |-> <<" ", "Done.">>]>>),
      ModelMessage(<<[text |-> <<"Working">>], [function_call |-> FC_remind],
                     [function_call |-> FC_agenda]>>),
      ModelMessage(<<[function_call |-> FC_weather], [function_call |-> FC_remind_null]>>) }

NextTwo ==
    \/ \E in \in ConcInputs :
          Quiescent /\ CallsLeft /\ chat(Driver, in[1], in[2], in[3]) /\ Park
    \/ Quiescent /\ reset /\ Park
    \/ \E content \in TwoResponses : GenerateAnswer(Driver, content) /\ Park
    \/ GenerateFail(Driver) /\ Park
    \/ \E ext \in BOOLEAN : DispatchNext(Driver, ext) /\ Park
    \/ Switch

SpecTwo == Init /\ [][NextTwo]_vars

\* --------------------------------------------------------------- claims

Last(h) == h[Len(h)]

\* The positions of the parts of message m that are tool calls.
ToolCallParts(m) == {i \in DOMAIN m.parts : "function_call" \in DOMAIN m.parts[i]}

\* Caller c's chat call returns to its caller in this step.
Returns(c) == pc[c] # "idle" /\ pc'[c] = "idle" /\ outcome'[c] = "returned"

\* C1: whenever a chat call returns, the transcript ends with a model
\* message that holds no tool call.
C1_ReturnsOnlyAfterFinalAnswer ==
    [][\A c \in Callers :
          Returns(c) =>
             /\ history' # << >>
             /\ Last(history').role = "model"
             /\ ToolCallParts(Last(history')) = {}]_vars

\* A chat call has returned after a round of tool calls.
C1_Witness ==
    \E c \in Callers :
       /\ outcome[c] = "returned"
       /\ Len(history) >= 4
       /\ Last(history).role = "model"
       /\ \E i \in DOMAIN history : history[i].role = "tool"

\* C2: the loop returns on a response exactly when the response holds no
\* tool call; on a response with k >= 1 tool calls it goes on to dispatch
\* the k calls instead.
C2_ReturnsIffNoToolCall ==
    [][\A c \in Callers :
          (pc[c] = "await_model" /\ Len(history') = Len(history) + 1) =>
             LET m == Last(history')
             IN  /\ (ToolCallParts(m) = {}) <=> Returns(c)
                 /\ ToolCallParts(m) # {} =>
                       /\ pc'[c] = "dispatch"
                       /\ Len(calls'[c]) = Cardinality(ToolCallParts(m))]_vars

\* A chat call has returned on the third response, the first two having
\* requested tools.
C2_Witness ==
    \E c \in Callers :
       /\ outcome[c] = "returned"
       /\ history # << >>
       /\ Last(history).role = "model"
       /\ Cardinality({i \in DOMAIN history :
                          history[i].role = "model"
                          /\ ToolCallParts(history[i]) # {}}) >= 2

\* C3: one chat call receives at most RoundCap responses with tool calls:
\* the loop stops once the cap is reached.
C3_RoundCapStopsLoop == \A c \in Callers : rounds[c] <= RoundCap

\* The tool calls of message m, in the order of its parts.
ToolCallsIn(m) ==
    SelectSeq(m.parts, LAMBDA part : "function_call" \in DOMAIN part)

\* Message r is the tool message that answers the call held by part p.
Answers(r, p) ==
    /\ r.role = "tool"
    /\ Len(r.parts) = 1
    /\ "function_response" \in DOMAIN r.parts[1]
    /\ r.parts[1].function_response.name = p.function_call.name

\* The model message at position i of h is followed by one tool message per
\* tool call it holds, in the order of the calls, and by no further one.
RoundComplete(h, i) ==
    LET cs == ToolCallsIn(h[i])
        k == Len(cs)
    IN  /\ i + k <= Len(h)
        /\ \A j \in 1..k : Answers(h[i + j], cs[j])
        /\ i + k + 1 <= Len(h) => h[i + k + 1].role # "tool"

\* C4: every iteration appends one model message and, for its k tool calls,
\* exactly k tool messages in the order of the calls, each named after its
\* call: whenever no for loop is under way, every model message of the
\* transcript is followed by exactly its tool messages.
C4_EveryRoundAppendsAllResults ==
    (\A c \in Callers : pc[c] # "dispatch") =>
        \A i \in DOMAIN history :
            history[i].role = "model" => RoundComplete(history, i)

\* The latest model message of h has all its tool calls answered.
LatestModelAnswered(h) ==
    LET ms == {i \in DOMAIN h : h[i].role = "model"}
    IN  ms # {} =>
          LET i == CHOOSE x \in ms : \A y \in ms : y <= x
              cs == ToolCallsIn(h[i])
          IN  /\ i + Len(cs) <= Len(h)
              /\ \A j \in 1..Len(cs) : Answers(h[i + j], cs[j])

\* C5: generate_content is never called while a tool call of the latest
\* model message of the transcript has no tool message.
C5_NoBackendCallWithPendingCall ==
    \A c \in Callers : pc[c] = "await_model" => LatestModelAnswered(history)

\* C6: the dispatcher raises on no request the loop hands it, and answers an
\* unregistered name and an argument payload that is no dict with an error.
C6_DispatchNeverRaises ==
    \A c \in Callers :
       pc[c] = "dispatch" =>
          \A ext \in BOOLEAN :
             LET function_call == calls[c][idx[c]]
                 d == _dispatch_tool_call(function_call, reminders, ext)
             IN  /\ ~d.raised
                 /\ (function_call.name \notin TOOL_NAMES
                       \/ function_call.args.t # "dict") =>
                       "error" \in DOMAIN d.result

\* C7: no chat call is ended by a tool call: a failing tool yields a result
\* and the loop goes on.
C7_ToolFailureNeverAborts == \A c \in Callers : outcome[c] # "ToolError"

\* C8: dispatching a name that is not registered appends the tool message
\* with {error: "Tool '<name>' is not available."}, calls no handler and
\* leaves the reminders as they are.
C8_UnknownToolIsNormalResult ==
    [][\A c \in Callers :
          (pc[c] = "dispatch" /\ calls[c][idx[c]].name \notin TOOL_NAMES) =>
             LET name == calls[c][idx[c]].name
             IN  /\ history' =
                       Append(history,
                              [role |-> "tool",
                               parts |-> <<[function_response |->
                                  [name |-> name,
                                   response |->
                                      [error |-> <<"Tool '" \o name
                                                     \o "' is not available.">>]]]>>])
                 /\ invoked' = "none"
                 /\ reminders' = reminders
                 /\ pc'[c] \in {"dispatch", "await_model"}]_vars

\* The tool message of an unregistered name has been appended.
C8_Witness ==
    /\ history # << >>
    /\ Last(history).role = "tool"
    /\ Last(history).parts[1].function_response.name = "unknown_tool"
    /\ reminders # << >>

\* C9: a generate_content call that fails ends the chat call with the
\* failure, with nothing stored, and each step makes at most one
\* generate_content call, which either appends one model message or fails.
C9_BackendFailurePropagates ==
    [][\A c \in Callers :
          /\ backendCalls' \in {backendCalls, backendCalls + 1}
          /\ (pc[c] = "await_model" /\ backendCalls' = backendCalls + 1) =>
                \/ /\ history' = history
                   /\ reminders' = reminders
                   /\ pc'[c] = "idle"
                   /\ outcome'[c] = "BackendError"
                \/ /\ Len(history') = Len(history) + 1
                   /\ Last(history').role = "model"
                   /\ outcome'[c] # "BackendError"]_vars

\* A generate_content call has failed after a round of tool calls.
C9_Witness ==
    \E c \in Callers :
       /\ outcome[c] = "BackendError"
       /\ pc[c] = "idle"
       /\ history # << >>
       /\ Last(history).role = "tool"

\* A part that holds a text or an attachment that is not empty.
HasContent(part) ==
    \/ "text" \in DOMAIN part /\ part.text # << >>
    \/ "inline_data" \in DOMAIN part /\ part.inline_data.data # << >>

\* C10: a chat call whose text and attachment are both absent or empty is
\* refused and appends nothing: every user message of the transcript holds
\* a text or an attachment that is not empty.
C10_EmptyInputAppendsNothing ==
    \A i \in DOMAIN history :
       history[i].role = "user" =>
          \E j \in DOMAIN history[i].parts : HasContent(history[i].parts[j])

\* Caller c's dispatch of its current tool call completes in this step
\* without an exception: the tool message is appended.
Dispatched(c) == pc[c] = "dispatch" /\ idx'[c] # idx[c] /\ pc'[c] # "idle"

\* The tool being dispatched by caller c, and what it was called with.
CurrentCall(c) == calls[c][idx[c]]

\* The response dict carried by tool message m.
ResponseOf(m) == m.parts[1].function_response.response

\* C11: every create_reminder call that stores a reminder appends exactly one
\* reminder, the one it returns, and returns as total the length of the
\* reminders right after the append; the first one on a fresh session
\* returns 1, so N of them in a row return 1, 2, ..., N.
C11_TotalCountsReminders ==
    [][\A c \in Callers :
          (/\ Dispatched(c)
           /\ CurrentCall(c).name = "create_reminder"
           /\ "status" \in DOMAIN ResponseOf(Last(history'))) =>
             LET r == ResponseOf(Last(history'))
             IN  /\ reminders' = Append(reminders, r.reminder)
                 /\ r.total = Len(reminders')
                 /\ r.total = Len(reminders) + 1]_vars

\* Two distinct reminders were stored one after the other and the second
\* call has just answered with total 2.
C11_Witness ==
    /\ Len(reminders) = 2
    /\ reminders[1] # reminders[2]
    /\ history # << >>
    /\ Last(history).role = "tool"
    /\ "status" \in DOMAIN ResponseOf(Last(history))
    /\ ResponseOf(Last(history)).total = 2

\* Sequence s is an initial part of sequence t.
IsPrefix(s, t) == Len(s) <= Len(t) /\ SubSeq(t, 1, Len(s)) = s

\* C12: whatever the step (chat, analyze_image, reset, a backend answer or
\* failure, a tool dispatch that returns or raises), the reminders before it
\* are an initial part of the reminders after it.
C12_RemindersOnlyGrow == [][IsPrefix(reminders, reminders')]_vars

\* A reminder is still stored after a later tool call raised and the
\* transcript was reset.
C12_Witness ==
    /\ reminders # << >>
    /\ history = << >>
    /\ outcome[Driver] = "ToolError"

\* No chat call starts, runs or ends in this step: between calls, the only
\* operation that leaves every caller's record as it was is reset().
NoCallStep ==
    /\ Quiescent
    /\ UNCHANGED <<pc, calls, idx, outcome, reply, rounds, backendCalls, invoked>>

\* C13: a reset() step leaves the transcript empty whatever it held, and
\* leaves the reminders as they were (the calendar index is a constant of
\* the model: no action writes it).
C13_ResetEmptiesTranscriptOnly ==
    [][NoCallStep => (history' = << >> /\ reminders' = reminders)]_vars

\* After a chat that stored a reminder and returned, the transcript has been
\* reset and the reminder is still there.
C13_Witness ==
    /\ history = << >>
    /\ reminders # << >>
    /\ outcome[Driver] = "returned"
    /\ backendCalls > 0

\* Message m is the tool message of the named tool.
IsResultOf(m, name) ==
    /\ m.role = "tool"
    /\ m.parts[1].function_response.name = name

\* C14: a list_calendar_agenda call leaves the reminders as they are, and
\* what it returns for a date is what it returns for that date on a fresh
\* session, whatever was stored or reset before the call: two calls with
\* the same date return the same result. (The calendar index is a constant
\* of the model: no action writes it.)
C14_AgendaReadOnlyIdempotent ==
    [][\A c \in Callers :
          (Dispatched(c) /\ CurrentCall(c).name = "list_calendar_agenda") =>
             /\ reminders' = reminders
             /\ ResponseOf(Last(history')) =
                   _tool_list_calendar_agenda(CurrentCall(c).args.d, << >>).result]_vars

\* The agenda of one date was listed twice with a reminder stored in
\* between, and both listings are the same.
C14_Witness ==
    \E i, k, j \in DOMAIN history :
       /\ i < k /\ k < j
       /\ IsResultOf(history[i], "list_calendar_agenda")
       /\ IsResultOf(history[j], "list_calendar_agenda")
       /\ IsResultOf(history[k], "create_reminder")
       /\ "status" \in DOMAIN ResponseOf(history[k])
       /\ "events" \in DOMAIN ResponseOf(history[i])
       /\ ResponseOf(history[i]) = ResponseOf(history[j])

\* The step is a reset() between calls, on its own or as the first statement
\* of analyze_image: the transcript is empty afterwards, or holds only the
\* user message of the analyze_image call that has just started.
ResetStep ==
    /\ Quiescent
    /\ \/ history' = << >>
       \/ /\ Len(history') = 1
          /\ history'[1].role = "user"
          /\ \E c \in Callers : pc'[c] = "await_model"

\* C15: every step of a chat call, whether the call returns or fails, keeps
\* the transcript it found as an initial part of the transcript it leaves;
\* only reset() takes messages away.
C15_TranscriptAppendOnly == [][IsPrefix(history, history') \/ ResetStep]_vars

\* A second chat call has returned on top of the transcript of the first,
\* which holds tool messages.
C15_Witness ==
    /\ outcome[Driver] = "returned"
    /\ \E i, k, j \in DOMAIN history :
          /\ i < k /\ k < j
          /\ history[i].role = "user"
          /\ history[k].role = "tool"
          /\ history[j].role = "user"

\* The tool messages of the named tool in the transcript that report a
\* failure.
FailuresOf(name) ==
    {i \in DOMAIN history :
        /\ IsResultOf(history[i], name)
        /\ "error" \in DOMAIN ResponseOf(history[i])}

\* C16: every failure result of get_weather_forecast, for a missing or blank
\* location as for a provider failure, has a location key beside its error
\* key.
C16_WeatherFailureShape ==
    \A i \in FailuresOf("get_weather_forecast") :
       "location" \in DOMAIN ResponseOf(history[i])

\* C17: every failure result of search_public_info, for an empty topic as
\* for a failed lookup, has a topic key beside its error key.
C17_SearchFailureShape ==
    \A i \in FailuresOf("search_public_info") :
       "topic" \in DOMAIN ResponseOf(history[i])

\* The create_reminder arguments a are invalid: the summary is empty after
\* trimming, or due_time is missing, or due_time does not parse.
InvalidReminder(a) ==
    \/ Strip(Get(a, "summary", Str(<< >>)).s) = << >>
    \/ "due_time" \notin DOMAIN a
    \/ ~DateParse(a["due_time"].s).ok

\* C18: a create_reminder call with invalid arguments answers with an error
\* key and no status key and leaves the reminders as they are; the
\* reminders change only in a create_reminder call that answers with status.
C18_InvalidReminderStoresNothing ==
    [][/\ \A c \in Callers :
            (/\ Dispatched(c)
             /\ CurrentCall(c).name = "create_reminder"
             /\ InvalidReminder(CurrentCall(c).args.d)) =>
                /\ "error" \in DOMAIN ResponseOf(Last(history'))
                /\ "status" \notin DOMAIN ResponseOf(Last(history'))
                /\ reminders' = reminders
       /\ reminders' # reminders =>
            \E c \in Callers :
               /\ Dispatched(c)
               /\ CurrentCall(c).name = "create_reminder"
               /\ ~InvalidReminder(CurrentCall(c).args.d)
               /\ "status" \in DOMAIN ResponseOf(Last(history'))]_vars

\* With a reminder already stored, a create_reminder call with an
\* unparsable due_time has just been answered with an error.
C18_Witness ==
    /\ reminders # << >>
    /\ history # << >>
    /\ IsResultOf(Last(history), "create_reminder")
    /\ ResponseOf(Last(history)) = [error |-> <<"Invalid due_time: ...">>]

\* Caller c's chat call ends in this step with the backend's failure.
BackendFails(c) ==
    pc[c] = "await_model" /\ pc'[c] = "idle" /\ outcome'[c] = "BackendError"

\* Caller c, whose last call ended with the backend's failure, starts its
\* next call in this step.
StartsAfterFailure(c) ==
    pc[c] = "idle" /\ outcome[c] = "BackendError" /\ pc'[c] = "await_model"

\* C19: the step in which a backend call fails changes neither the
\* transcript nor the reminders, so the user message of the call and the
\* messages and reminders of its completed rounds stay; the transcript then
\* ends with a user or tool message; and the next chat call appends its user
\* message after that transcript (an analyze_image call resets it first).
C19_BackendFailureKeepsTurn ==
    [][\A c \in Callers :
          /\ BackendFails(c) =>
                /\ history' = history
                /\ reminders' = reminders
                /\ history' # << >>
                /\ Last(history').role \in {"user", "tool"}
          /\ StartsAfterFailure(c) =>
                /\ Last(history').role = "user"
                /\ \/ history' = Append(history, Last(history'))
                   \/ Len(history') = 1]_vars

\* A backend call failed after a round that stored a reminder: the round's
\* messages and the reminder are still there.
C19_Witness ==
    /\ outcome[Driver] = "BackendError"
    /\ pc[Driver] = "idle"
    /\ reminders # << >>
    /\ Len(history) >= 3
    /\ history[1].role = "user"
    /\ history[2].role = "model"
    /\ Last(history).role = "tool"

\* C20: nothing in the session object holds a second chat call back while
\* a first one is between a tool-calling model message and its tool results:
\* the second call can append its user message there, and can make its
\* backend call, which sends the transcript with the first call's tool call
\* still unanswered.
C20_ConcurrentCallsInterleave ==
    \A c, d \in Callers :
       (c # d /\ pc[c] = "dispatch" /\ CallsLeft) =>
          /\ pc[d] = "idle" => ENABLED chat(d, <<"hi">>, NoImage, "image/png")
          /\ pc[d] = "await_model" =>
                \A content \in ConcResponses : ENABLED GenerateAnswer(d, content)

\* The interleaving: caller c still has a tool call to answer, a user
\* message of the other call stands between c's tool-calling model message
\* and a tool result of it, and the newest message is the backend's response
\* to the other call, made while c's tool call had no result.
C20_Witness ==
    \E c \in Callers :
       /\ pc[c] = "dispatch"
       /\ idx[c] > 1
       /\ Last(history).role = "model"
       /\ \E i, k, j \in DOMAIN history :
             /\ i < k /\ k < j
             /\ history[i].role = "model"
             /\ history[k].role = "user"
             /\ \E p \in ToolCallParts(history[i]) :
                   Answers(history[j], history[i].parts[p])

DeclaredNames == {build_tool_spec[i] : i \in DOMAIN build_tool_spec}

\* C22: TOOL_NAMES, the names build_tool_spec declares and the keys of the
\* handler table are one set of five names, and a dispatch of a name in
\* TOOL_NAMES never fails at the handler lookup: it calls the handler of
\* that name, unless the coercion of the arguments raises first.
C22_RegistryMatchesHandlers ==
    /\ TOOL_NAMES = DeclaredNames
    /\ TOOL_NAMES = handlers
    /\ Cardinality(TOOL_NAMES) = 5
    /\ Len(build_tool_spec) = 5
    /\ \A c \in Callers :
          (pc[c] = "dispatch" /\ CurrentCall(c).name \in TOOL_NAMES) =>
             \A ext \in BOOLEAN :
                LET d == _dispatch_tool_call(CurrentCall(c), reminders, ext)
                IN  /\ ~(d.raised /\ d.exc = "KeyError")
                    /\ \/ d.invoked = CurrentCall(c).name
                       \/ d.raised /\ d.exc \in {"ValueError", "TypeError"}

\* Each of the five registered tools has been dispatched to its handler in
\* turn; here the last of them, draft_email_outline, has just answered.
C22_Witness ==
    /\ invoked = "draft_email_outline"
    /\ history # << >>
    /\ IsResultOf(Last(history), "draft_email_outline")
    /\ "error" \notin DOMAIN ResponseOf(Last(history))

====
